---- MODULE Spec2Model ----
(***************************************************************************)
(* Model of the dss repository: the pipeline program (src/c/pipe.c), the    *)
(* interactive shell (src/c/stage1_shell.c), its get_input run on its own,  *)
(* and the directory-change utility (src/c/cd.c).                           *)
(*                                                                         *)
(* Processes of the pipeline program are named by the loop iterations at    *)
(* which the forks leading to them happened: <<>> is the process that       *)
(* entered main, Append(p, k) is the child forked by p in iteration k.      *)
(* pipe() is assumed to succeed (descriptor limit not reached).             *)
(***************************************************************************)
EXTENDS Integers, Sequences, FiniteSets, TLC

\* ---------------------------------------------------------------- bounds
MaxN == 3          \* largest number of pipeline stages explored

MaxFail == 1       \* largest number of failing fork()/execvp() calls in one run

MaxLines == 2      \* largest number of input lines the line reader delivers

MaxArgs == 2       \* largest number of arguments given to the cd utility

MaxTokens == 8     \* largest number of tokens on a line given to get_input alone

\* ------------------------------------------------------- pipeline state
VARIABLES
  n,           \* fork_pipes argument n: number of stages
  pc,          \* control point of each process
  i,           \* fork_pipes local i of each process
  in,          \* fork_pipes local in of each process
  fd,          \* fork_pipes local fd[2] of each process, <<fd[0], fd[1]>>
  fds,         \* descriptor table of each process: fd number -> open file
  stage,       \* index of the stage program the process was replaced by, -1 if none
  exitStatus,  \* exit status of a terminated process, -1 while alive
  execFailed,  \* execvp returned (failed) in the spawn_proc child branch of the process
  forkFailed,  \* a fork() called by the process returned -1
  nPipes,      \* number of pipe() calls made by the process itself
  nForked,     \* number of children the process itself created
  nDups,       \* number of dup2() calls made by the process itself
  execTried,   \* stages the process called execvp for
  failures     \* number of fork()/execvp() calls that failed so far

pvars == <<n, pc, i, in, fd, fds, stage, exitStatus, execFailed, forkFailed,
           nPipes, nForked, nDups, execTried, failures>>

\* ---------------------------------------------------------- shell state
VARIABLES
  lines,       \* input lines the line reader has not delivered yet
  spc,         \* control point of each process of the shell
  scmd,        \* main local command of each process: the tokens of the current line
  scwd,        \* working directory of each process
  schild,      \* main local child_pid of each process
  sparent,     \* parent of each process, 0 if none
  sstatus,     \* exit status of a terminated process, -1 while alive
  sexecFailed, \* execvp returned (failed) in the process
  sdiag,       \* diagnostics written to standard error: <<pid, call, name>>
  sstopped,    \* processes stopped by a signal
  seof,        \* processes whose readline has returned NULL
  nextPid      \* pid the next successful fork() creates

svars == <<lines, spc, scmd, scwd, schild, sparent, sstatus, sexecFailed, sdiag,
           sstopped, seof, nextPid>>

\* ------------------------------------------------ cd utility state (cd.c)
VARIABLES
  cdArgs,      \* argv[1 ..]: the arguments after the program name
  cdDirs,      \* directories that exist and may be entered
  cdStart,     \* working directory at start-up
  cdCwd,       \* working directory of the process
  cdPc,        \* control point
  cdResult,    \* main local result, 0 before chdir is called
  cdExit,      \* exit code, -1 while running
  cdOut        \* messages printed

cvars == <<cdArgs, cdDirs, cdStart, cdCwd, cdPc, cdResult, cdExit, cdOut>>

\* ------------------------------------------- get_input state (run alone)
VARIABLES
  ginput,      \* parameter input
  gpos,        \* position strtok continues from on strtok(NULL, separator)
  gparsed,     \* local parsed, NoToken for NULL
  gindex,      \* local index
  gcommand,    \* values stored through command[...], in the order of the stores
  gstored,     \* indices of command[...] that were stored to
  gpc          \* control point

gvars == <<ginput, gpos, gparsed, gindex, gcommand, gstored, gpc>>

vars == <<pvars, svars, cvars, gvars>>

Root == <<>>

Iter == 0 .. (MaxN - 2)

IsIncreasing(s) == \A a, b \in 1 .. Len(s) : a < b => s[a] < s[b]

ProcIds == { s \in UNION { [1 .. k -> Iter] : k \in 0 .. (MaxN - 1) } : IsIncreasing(s) }

MaxFd == 2 * MaxN + 1

FdSet == 0 .. MaxFd

\* open files: <<kind, creator, index>>
Closed == <<"closed", <<>>, 0>>

Std(k) == <<"std", <<>>, k>>

ReadEnd(p, k) == <<"r", p, k>>

WriteEnd(p, k) == <<"w", p, k>>

NoFds == [f \in FdSet |-> Closed]

InitFds == [f \in FdSet |-> IF f < 3 THEN Std(f) ELSE Closed]

LowestFree(t) == CHOOSE f \in FdSet : t[f] = Closed /\ \A g \in FdSet : g < f => t[g] # Closed

IsOpen(t, f) == f \in FdSet /\ t[f] # Closed

Dup2(t, old, new) == IF IsOpen(t, old) THEN [t EXCEPT ![new] = t[old]] ELSE t

Close(t, f) == IF f \in FdSet THEN [t EXCEPT ![f] = Closed] ELSE t

Alive(p) == pc[p] \notin {"none", "exited", "reaped"}

PInit ==
  /\ n \in 1 .. MaxN
  /\ pc = [p \in ProcIds |-> IF p = Root THEN "loop" ELSE "none"]
  /\ i = [p \in ProcIds |-> 0]
  /\ in = [p \in ProcIds |-> 0]
  /\ fd = [p \in ProcIds |-> <<-1, -1>>]
  /\ fds = [p \in ProcIds |-> IF p = Root THEN InitFds ELSE NoFds]
  /\ stage = [p \in ProcIds |-> -1]
  /\ exitStatus = [p \in ProcIds |-> -1]
  /\ execFailed = [p \in ProcIds |-> FALSE]
  /\ forkFailed = [p \in ProcIds |-> FALSE]
  /\ nPipes = [p \in ProcIds |-> 0]
  /\ nForked = [p \in ProcIds |-> 0]
  /\ nDups = [p \in ProcIds |-> 0]
  /\ execTried = [p \in ProcIds |-> {}]
  /\ failures = 0

LoopCondOffByOne(p) == i[p] < n

\* fork_pipes: the loop condition i < n - 1
LoopCond(p) == i[p] < n - 1

\* fork_pipes: loop test true, pipe(fd)
Pipe(p) ==
  /\ pc[p] = "loop"
  /\ LoopCond(p)
  /\ LET r == LowestFree(fds[p])
         t == [fds[p] EXCEPT ![r] = ReadEnd(p, i[p])]
         w == LowestFree(t)
     IN /\ fds' = [fds EXCEPT ![p] = [t EXCEPT ![w] = WriteEnd(p, i[p])]]
        /\ fd' = [fd EXCEPT ![p] = <<r, w>>]
  /\ nPipes' = [nPipes EXCEPT ![p] = @ + 1]
  /\ pc' = [pc EXCEPT ![p] = "spawn"]
  /\ UNCHANGED <<n, i, in, stage, exitStatus, execFailed, forkFailed, nForked, nDups, execTried, failures>>

\* spawn_proc(in, fd[1], cmd + i): fork() succeeds; the child is a copy of the parent
ForkOk(p) ==
  /\ pc[p] = "spawn"
  /\ LET c == Append(p, i[p])
     IN /\ pc' = [pc EXCEPT ![p] = "close_w", ![c] = "child_in"]
        /\ i' = [i EXCEPT ![c] = i[p]]
        /\ in' = [in EXCEPT ![c] = in[p]]
        /\ fd' = [fd EXCEPT ![c] = fd[p]]
        /\ fds' = [fds EXCEPT ![c] = fds[p]]
  /\ nForked' = [nForked EXCEPT ![p] = @ + 1]
  /\ UNCHANGED <<n, stage, exitStatus, execFailed, forkFailed, nPipes, nDups, execTried, failures>>

\* spawn_proc: fork() returns -1; spawn_proc returns -1, which fork_pipes ignores
ForkFail(p) ==
  /\ pc[p] = "spawn"
  /\ pc' = [pc EXCEPT ![p] = "close_w"]
  /\ forkFailed' = [forkFailed EXCEPT ![p] = TRUE]
  /\ failures < MaxFail
  /\ failures' = failures + 1
  /\ UNCHANGED <<n, i, in, fd, fds, stage, exitStatus, execFailed, nPipes, nForked, nDups, execTried>>

ChildDupInNoDup(p) ==
  /\ pc[p] = "child_in"
  /\ IF in[p] # 0
       THEN /\ fds' = [fds EXCEPT ![p] = Close(fds[p], in[p])]
            /\ nDups' = nDups
       ELSE UNCHANGED <<fds, nDups>>
  /\ pc' = [pc EXCEPT ![p] = "child_out"]
  /\ UNCHANGED <<n, i, in, fd, stage, exitStatus, execFailed, forkFailed, nPipes, nForked, execTried, failures>>

\* spawn_proc child: if (in != 0) { dup2(in, 0); close(in); }
ChildDupIn(p) ==
  /\ pc[p] = "child_in"
  /\ IF in[p] # 0
       THEN /\ fds' = [fds EXCEPT ![p] = Close(Dup2(fds[p], in[p], 0), in[p])]
            /\ nDups' = [nDups EXCEPT ![p] = @ + 1]
       ELSE UNCHANGED <<fds, nDups>>
  /\ pc' = [pc EXCEPT ![p] = "child_out"]
  /\ UNCHANGED <<n, i, in, fd, stage, exitStatus, execFailed, forkFailed, nPipes, nForked, execTried, failures>>

\* spawn_proc child: if (out != 1) { dup2(out, 1); close(out); }   (out is fd[1])
ChildDupOut(p) ==
  /\ pc[p] = "child_out"
  /\ IF fd[p][2] # 1
       THEN /\ fds' = [fds EXCEPT ![p] = Close(Dup2(fds[p], fd[p][2], 1), fd[p][2])]
            /\ nDups' = [nDups EXCEPT ![p] = @ + 1]
       ELSE UNCHANGED <<fds, nDups>>
  /\ pc' = [pc EXCEPT ![p] = "child_exec"]
  /\ UNCHANGED <<n, i, in, fd, stage, exitStatus, execFailed, forkFailed, nPipes, nForked, execTried, failures>>

\* spawn_proc child: execvp succeeds, the process becomes stage i
ChildExecOk(p) ==
  /\ pc[p] = "child_exec"
  /\ pc' = [pc EXCEPT ![p] = "running"]
  /\ stage' = [stage EXCEPT ![p] = i[p]]
  /\ execTried' = [execTried EXCEPT ![p] = @ \cup {i[p]}]
  /\ UNCHANGED <<n, i, in, fd, fds, exitStatus, execFailed, forkFailed, nPipes, nForked, nDups, failures>>

\* spawn_proc child: execvp fails; "return execvp(...)" returns -1 to the
\* call site in fork_pipes, whose next statement is close(fd[1])
ChildExecFail(p) ==
  /\ pc[p] = "child_exec"
  /\ pc' = [pc EXCEPT ![p] = "close_w"]
  /\ execFailed' = [execFailed EXCEPT ![p] = TRUE]
  /\ execTried' = [execTried EXCEPT ![p] = @ \cup {i[p]}]
  /\ failures < MaxFail
  /\ failures' = failures + 1
  /\ UNCHANGED <<n, i, in, fd, fds, stage, exitStatus, forkFailed, nPipes, nForked, nDups>>

CloseWNoClose(p) ==
  /\ pc[p] = "close_w"
  /\ in' = [in EXCEPT ![p] = fd[p][1]]
  /\ i' = [i EXCEPT ![p] = @ + 1]
  /\ pc' = [pc EXCEPT ![p] = "loop"]
  /\ UNCHANGED <<n, fd, fds, stage, exitStatus, execFailed, forkFailed, nPipes, nForked, nDups, execTried, failures>>

CloseWReadEnd(p) ==
  /\ pc[p] = "close_w"
  /\ fds' = [fds EXCEPT ![p] = Close(fds[p], fd[p][1])]
  /\ in' = [in EXCEPT ![p] = fd[p][1]]
  /\ i' = [i EXCEPT ![p] = @ + 1]
  /\ pc' = [pc EXCEPT ![p] = "loop"]
  /\ UNCHANGED <<n, fd, stage, exitStatus, execFailed, forkFailed, nPipes, nForked, nDups, execTried, failures>>

\* fork_pipes: close(fd[1]); in = fd[0]; ++i
CloseW(p) ==
  /\ pc[p] = "close_w"
  /\ fds' = [fds EXCEPT ![p] = Close(fds[p], fd[p][2])]
  /\ in' = [in EXCEPT ![p] = fd[p][1]]
  /\ i' = [i EXCEPT ![p] = @ + 1]
  /\ pc' = [pc EXCEPT ![p] = "loop"]
  /\ UNCHANGED <<n, fd, stage, exitStatus, execFailed, forkFailed, nPipes, nForked, nDups, execTried, failures>>

\* fork_pipes: loop test false; if (in != 0) dup2(in, 0);
FinalDup(p) ==
  /\ pc[p] = "loop"
  /\ ~LoopCond(p)
  /\ IF in[p] # 0
       THEN /\ fds' = [fds EXCEPT ![p] = Dup2(fds[p], in[p], 0)]
            /\ nDups' = [nDups EXCEPT ![p] = @ + 1]
       ELSE UNCHANGED <<fds, nDups>>
  /\ pc' = [pc EXCEPT ![p] = "exec_last"]
  /\ UNCHANGED <<n, i, in, fd, stage, exitStatus, execFailed, forkFailed, nPipes, nForked, execTried, failures>>

\* fork_pipes: execvp(cmd[i]...) succeeds in the current process
LastExecOk(p) ==
  /\ pc[p] = "exec_last"
  /\ pc' = [pc EXCEPT ![p] = "running"]
  /\ stage' = [stage EXCEPT ![p] = i[p]]
  /\ execTried' = [execTried EXCEPT ![p] = @ \cup {i[p]}]
  /\ UNCHANGED <<n, i, in, fd, fds, exitStatus, execFailed, forkFailed, nPipes, nForked, nDups, failures>>

\* fork_pipes: execvp fails, fork_pipes returns -1, main returns -1: exit status 255
LastExecFail(p) ==
  /\ pc[p] = "exec_last"
  /\ pc' = [pc EXCEPT ![p] = "exited"]
  /\ exitStatus' = [exitStatus EXCEPT ![p] = 255]
  /\ fds' = [fds EXCEPT ![p] = NoFds]
  /\ execTried' = [execTried EXCEPT ![p] = @ \cup {i[p]}]
  /\ failures < MaxFail
  /\ failures' = failures + 1
  /\ UNCHANGED <<n, i, in, fd, stage, execFailed, forkFailed, nPipes, nForked, nDups>>

\* a process holds the write end of the pipe whose read end is q's standard input
WriterExists(q) ==
  \E p \in ProcIds, f \in FdSet :
     /\ Alive(p)
     /\ fds[p][f][1] = "w"
     /\ fds[q][0] = <<"r", fds[p][f][2], fds[p][f][3]>>

\* the stage program of q reads end-of-stream on its standard input
ReadsEOF(q) == fds[q][0][1] = "r" /\ ~WriterExists(q)

\* a stage program finishes: stage 0 on its own, the others once they read
\* end-of-stream; exit closes every descriptor of the process
StageExit(p) ==
  /\ pc[p] = "running"
  /\ stage[p] = 0 \/ ReadsEOF(p)
  /\ pc' = [pc EXCEPT ![p] = "exited"]
  /\ exitStatus' = [exitStatus EXCEPT ![p] = 0]
  /\ fds' = [fds EXCEPT ![p] = NoFds]
  /\ UNCHANGED <<n, i, in, fd, stage, execFailed, forkFailed, nPipes, nForked, nDups, execTried, failures>>

PNext ==
  \E p \in ProcIds :
     \/ Pipe(p)
     \/ ForkOk(p)
     \/ ForkFail(p)
     \/ ChildDupIn(p)
     \/ ChildDupOut(p)
     \/ ChildExecOk(p)
     \/ ChildExecFail(p)
     \/ CloseW(p)
     \/ FinalDup(p)
     \/ LastExecOk(p)
     \/ LastExecFail(p)
     \/ StageExit(p)

\* ------------------------------------------------------ interactive shell

Pids == 1 .. (MaxLines + 1)

Shell == 1

Sep == " "

\* input lines explored, as character sequences
LineSet ==
  { <<>>,
    <<" ", " ">>,
    <<"\t">>,
    <<" ", "l", "s", " ", " ", "x", " ">>,
    <<"c", "d">>,
    <<"c", "d", " ", "d">> }

Cd == <<"c", "d">>

NoToken == <<>>

StartDir == <<"/">>

\* index of the first character of s at or after k that is (isSep) or is not
\* (~isSep) a separator, Len(s) + 1 if there is none
RECURSIVE Scan(_, _, _)
Scan(s, k, isSep) ==
  IF k > Len(s) THEN k
  ELSE IF (s[k] = Sep) = isSep THEN k
  ELSE Scan(s, k + 1, isSep)

\* the strtok loop of get_input: tokens of s from position k on
RECURSIVE Strtok(_, _)
Strtok(s, k) ==
  LET b == Scan(s, k, FALSE)
      e == Scan(s, b, TRUE)
  IN IF b > Len(s) THEN <<>>
     ELSE <<SubSeq(s, b, e - 1)>> \o Strtok(s, e + 1)

\* get_input: command[0 .. index-1] are the tokens, command[index] = NULL
get_input(line) == Strtok(line, 1)

\* command[k] of the C array (0-based), NoToken for the terminating NULL
Arg(cmd, k) == IF k + 1 <= Len(cmd) THEN cmd[k + 1] ELSE NoToken

SIdle ==
  /\ lines = <<>>
  /\ spc = [p \in Pids |-> "none"]
  /\ scmd = [p \in Pids |-> <<>>]
  /\ scwd = [p \in Pids |-> StartDir]
  /\ schild = [p \in Pids |-> 0]
  /\ sparent = [p \in Pids |-> 0]
  /\ sstatus = [p \in Pids |-> -1]
  /\ sexecFailed = [p \in Pids |-> FALSE]
  /\ sdiag = {}
  /\ sstopped = {}
  /\ seof = {}
  /\ nextPid = 2

PIdle ==
  /\ n = 1
  /\ pc = [p \in ProcIds |-> "none"]
  /\ i = [p \in ProcIds |-> 0]
  /\ in = [p \in ProcIds |-> 0]
  /\ fd = [p \in ProcIds |-> <<-1, -1>>]
  /\ fds = [p \in ProcIds |-> NoFds]
  /\ stage = [p \in ProcIds |-> -1]
  /\ exitStatus = [p \in ProcIds |-> -1]
  /\ execFailed = [p \in ProcIds |-> FALSE]
  /\ forkFailed = [p \in ProcIds |-> FALSE]
  /\ nPipes = [p \in ProcIds |-> 0]
  /\ nForked = [p \in ProcIds |-> 0]
  /\ nDups = [p \in ProcIds |-> 0]
  /\ execTried = [p \in ProcIds |-> {}]
  /\ failures = 0

SInit ==
  /\ lines \in UNION { [1 .. k -> LineSet] : k \in 0 .. MaxLines }
  /\ spc = [p \in Pids |-> IF p = Shell THEN "read" ELSE "none"]
  /\ scmd = [p \in Pids |-> <<>>]
  /\ scwd = [p \in Pids |-> StartDir]
  /\ schild = [p \in Pids |-> 0]
  /\ sparent = [p \in Pids |-> 0]
  /\ sstatus = [p \in Pids |-> -1]
  /\ sexecFailed = [p \in Pids |-> FALSE]
  /\ sdiag = {}
  /\ sstopped = {}
  /\ seof = {}
  /\ nextPid = 2

SAlive(p) == spc[p] \notin {"none", "exited", "reaped"}

Runs(p) == SAlive(p) /\ p \notin sstopped

\* main: input = readline("$ "); command = get_input(input);
\* if (!command[0]) { free; continue; }
ReadLine(p) ==
  /\ Runs(p)
  /\ spc[p] = "read"
  /\ lines # <<>>
  /\ lines' = Tail(lines)
  /\ scmd' = [scmd EXCEPT ![p] = get_input(Head(lines))]
  /\ spc' = [spc EXCEPT ![p] = IF get_input(Head(lines)) = <<>> THEN "read" ELSE "fork"]
  /\ UNCHANGED <<scwd, schild, sparent, sstatus, sexecFailed, sdiag, sstopped, seof, nextPid>>

\* main: readline returns NULL at end of input and get_input(NULL) calls
\* strtok(NULL, " ") with no string to continue: undefined behaviour; the
\* call returns NULL (empty command, the loop goes on)
ReadEofGoOn(p) ==
  /\ Runs(p)
  /\ spc[p] = "read"
  /\ lines = <<>>
  /\ p \notin seof
  /\ seof' = seof \cup {p}
  /\ scmd' = [scmd EXCEPT ![p] = <<>>]
  /\ UNCHANGED <<lines, spc, scwd, schild, sparent, sstatus, sexecFailed, sdiag, sstopped, nextPid>>

\* ... or the call dereferences an invalid pointer and the process is killed
\* by SIGSEGV (status 139 as a shell reports it)
ReadEofCrash(p) ==
  /\ Runs(p)
  /\ spc[p] = "read"
  /\ lines = <<>>
  /\ seof' = seof \cup {p}
  /\ spc' = [spc EXCEPT ![p] = "exited"]
  /\ sstatus' = [sstatus EXCEPT ![p] = 139]
  /\ UNCHANGED <<lines, scmd, scwd, schild, sparent, sexecFailed, sdiag, sstopped, nextPid>>

\* main: child_pid = fork() succeeds; the child is a copy of the parent
SForkOk(p) ==
  /\ Runs(p)
  /\ spc[p] = "fork"
  /\ nextPid \in Pids
  /\ LET c == nextPid
     IN /\ spc' = [spc EXCEPT ![p] = "wait", ![c] = "child"]
        /\ scmd' = [scmd EXCEPT ![c] = scmd[p]]
        /\ scwd' = [scwd EXCEPT ![c] = scwd[p]]
        /\ schild' = [schild EXCEPT ![p] = c, ![c] = 0]
        /\ sparent' = [sparent EXCEPT ![c] = p]
  /\ nextPid' = nextPid + 1
  /\ UNCHANGED <<lines, sstatus, sexecFailed, sdiag, sstopped, seof>>

SForkFailContinue(p) ==
  /\ Runs(p)
  /\ spc[p] = "fork"
  /\ sdiag' = sdiag \cup {<<p, "fork", NoToken>>}
  /\ spc' = [spc EXCEPT ![p] = "read"]
  /\ schild' = [schild EXCEPT ![p] = -1]
  /\ UNCHANGED <<lines, scmd, scwd, sparent, sstatus, sexecFailed, sstopped, seof, nextPid>>

\* main: fork() fails: perror("Fork failed"); exit(1);
SForkFail(p) ==
  /\ Runs(p)
  /\ spc[p] = "fork"
  /\ sdiag' = sdiag \cup {<<p, "fork", NoToken>>}
  /\ spc' = [spc EXCEPT ![p] = "exited"]
  /\ sstatus' = [sstatus EXCEPT ![p] = 1]
  /\ schild' = [schild EXCEPT ![p] = -1]
  /\ UNCHANGED <<lines, scmd, scwd, sparent, sexecFailed, sstopped, seof, nextPid>>

CdOkInParent(p) ==
  /\ Runs(p)
  /\ spc[p] = "child"
  /\ Arg(scmd[p], 0) = Cd
  /\ Arg(scmd[p], 1) # NoToken
  /\ scwd' = [scwd EXCEPT ![p] = Arg(scmd[p], 1), ![sparent[p]] = Arg(scmd[p], 1)]
  /\ spc' = [spc EXCEPT ![p] = "read"]
  /\ UNCHANGED <<lines, scmd, schild, sparent, sstatus, sexecFailed, sdiag, sstopped, seof, nextPid>>

\* main, child, command[0] is "cd": chdir(command[1]) succeeds; cwd(); then
\* the child leaves the if, frees and goes round the while (1) loop
CdOk(p) ==
  /\ Runs(p)
  /\ spc[p] = "child"
  /\ Arg(scmd[p], 0) = Cd
  /\ Arg(scmd[p], 1) # NoToken
  /\ scwd' = [scwd EXCEPT ![p] = Arg(scmd[p], 1)]
  /\ spc' = [spc EXCEPT ![p] = "read"]
  /\ UNCHANGED <<lines, scmd, schild, sparent, sstatus, sexecFailed, sdiag, sstopped, seof, nextPid>>

\* main, child, command[0] is "cd": chdir(command[1]) fails (also for a NULL
\* command[1]): perror("chdir() result"); cwd(); then round the loop
CdFail(p) ==
  /\ Runs(p)
  /\ spc[p] = "child"
  /\ Arg(scmd[p], 0) = Cd
  /\ sdiag' = sdiag \cup {<<p, "chdir", NoToken>>}
  /\ spc' = [spc EXCEPT ![p] = "read"]
  /\ UNCHANGED <<lines, scmd, scwd, schild, sparent, sstatus, sexecFailed, sstopped, seof, nextPid>>

\* main, child: execvp(command[0], command) succeeds
SExecOk(p) ==
  /\ Runs(p)
  /\ spc[p] = "child"
  /\ Arg(scmd[p], 0) # Cd
  /\ spc' = [spc EXCEPT ![p] = "running"]
  /\ UNCHANGED <<lines, scmd, scwd, schild, sparent, sstatus, sexecFailed, sdiag, sstopped, seof, nextPid>>

SExecFailNoExit(p) ==
  /\ Runs(p)
  /\ spc[p] = "child"
  /\ Arg(scmd[p], 0) # Cd
  /\ sexecFailed' = [sexecFailed EXCEPT ![p] = TRUE]
  /\ sdiag' = sdiag \cup {<<p, "exec", Arg(scmd[p], 0)>>}
  /\ spc' = [spc EXCEPT ![p] = "read"]
  /\ UNCHANGED <<lines, scmd, scwd, schild, sparent, sstatus, sstopped, seof, nextPid>>

\* main, child: execvp fails: perror(command[0]); exit(1);
SExecFail(p) ==
  /\ Runs(p)
  /\ spc[p] = "child"
  /\ Arg(scmd[p], 0) # Cd
  /\ sexecFailed' = [sexecFailed EXCEPT ![p] = TRUE]
  /\ sdiag' = sdiag \cup {<<p, "exec", Arg(scmd[p], 0)>>}
  /\ spc' = [spc EXCEPT ![p] = "exited"]
  /\ sstatus' = [sstatus EXCEPT ![p] = 1]
  /\ UNCHANGED <<lines, scmd, scwd, schild, sparent, sstopped, seof, nextPid>>

\* the program the child was replaced by terminates
ProgExit(p) ==
  /\ Runs(p)
  /\ spc[p] = "running"
  /\ \E st \in {0, 1} : sstatus' = [sstatus EXCEPT ![p] = st]
  /\ spc' = [spc EXCEPT ![p] = "exited"]
  /\ UNCHANGED <<lines, scmd, scwd, schild, sparent, sexecFailed, sdiag, sstopped, seof, nextPid>>

\* main, parent: waitpid(child_pid, &stat_loc, WUNTRACED) returns because the
\* child has terminated (and is reaped); free; next iteration
WaitExited(p) ==
  /\ Runs(p)
  /\ spc[p] = "wait"
  /\ spc[schild[p]] = "exited"
  /\ spc' = [spc EXCEPT ![p] = "read", ![schild[p]] = "reaped"]
  /\ UNCHANGED <<lines, scmd, scwd, schild, sparent, sstatus, sexecFailed, sdiag, sstopped, seof, nextPid>>

\* main, parent: waitpid(..., WUNTRACED) returns because the child is stopped
WaitStopped(p) ==
  /\ Runs(p)
  /\ spc[p] = "wait"
  /\ SAlive(schild[p])
  /\ schild[p] \in sstopped
  /\ spc' = [spc EXCEPT ![p] = "read"]
  /\ UNCHANGED <<lines, scmd, scwd, schild, sparent, sstatus, sexecFailed, sdiag, sstopped, seof, nextPid>>

\* a stop signal is delivered to a child process
Stop(p) ==
  /\ Runs(p)
  /\ p # Shell
  /\ sstopped' = sstopped \cup {p}
  /\ UNCHANGED <<lines, spc, scmd, scwd, schild, sparent, sstatus, sexecFailed, sdiag, seof, nextPid>>

\* SIGCONT is delivered to a stopped process
Cont(p) ==
  /\ p \in sstopped
  /\ sstopped' = sstopped \ {p}
  /\ UNCHANGED <<lines, spc, scmd, scwd, schild, sparent, sstatus, sexecFailed, sdiag, seof, nextPid>>

SStep(p) ==
  \/ ReadLine(p)
  \/ ReadEofGoOn(p)
  \/ ReadEofCrash(p)
  \/ SForkOk(p)
  \/ SForkFail(p)
  \/ CdOk(p)
  \/ CdFail(p)
  \/ SExecOk(p)
  \/ SExecFail(p)
  \/ ProgExit(p)
  \/ WaitExited(p)
  \/ WaitStopped(p)
  \/ Stop(p)
  \/ Cont(p)

\* ------------------------------------------------------------ cd utility

Paths == { <<"/">>, <<"/", "a">>, <<"/", "x">> }

CIdle ==
  /\ cdArgs = <<>>
  /\ cdDirs = {}
  /\ cdStart = <<"/">>
  /\ cdCwd = <<"/">>
  /\ cdPc = "none"
  /\ cdResult = 0
  /\ cdExit = -1
  /\ cdOut = {}

CInit ==
  /\ cdArgs \in UNION { [1 .. k -> Paths] : k \in 0 .. MaxArgs }
  /\ cdDirs \in SUBSET Paths
  /\ cdStart \in cdDirs
  /\ cdCwd = cdStart
  /\ cdPc = "start"
  /\ cdResult = 0
  /\ cdExit = -1
  /\ cdOut = {}

\* argc counts the program name
argc == Len(cdArgs) + 1

\* main: if (argc != 2) { printf("invalid args"); return 1; }
CdBadArgs ==
  /\ cdPc = "start"
  /\ argc # 2
  /\ cdOut' = cdOut \cup {"invalid args"}
  /\ cdExit' = 1
  /\ cdPc' = "done"
  /\ UNCHANGED <<cdArgs, cdDirs, cdStart, cdCwd, cdResult>>

\* main: result = chdir(argv[1]) succeeds
CdChdirOk ==
  /\ cdPc = "start"
  /\ argc = 2
  /\ cdArgs[1] \in cdDirs
  /\ cdCwd' = cdArgs[1]
  /\ cdResult' = 0
  /\ cdPc' = "cwd"
  /\ UNCHANGED <<cdArgs, cdDirs, cdStart, cdExit, cdOut>>

\* main: result = chdir(argv[1]) fails; perror("chdir() result")
CdChdirFail ==
  /\ cdPc = "start"
  /\ argc = 2
  /\ cdArgs[1] \notin cdDirs
  /\ cdResult' = -1
  /\ cdOut' = cdOut \cup {"chdir() result"}
  /\ cdPc' = "cwd"
  /\ UNCHANGED <<cdArgs, cdDirs, cdStart, cdCwd, cdExit>>

\* main: cwd() prints the working directory; return 0
CdCwdPrinted ==
  /\ cdPc = "cwd"
  /\ cdOut' = cdOut \cup {"Current Working Directory"}
  /\ cdExit' = 0
  /\ cdPc' = "done"
  /\ UNCHANGED <<cdArgs, cdDirs, cdStart, cdCwd, cdResult>>

\* main: cwd(): getcwd fails, perror("getcwd() error"); return 0
CdCwdError ==
  /\ cdPc = "cwd"
  /\ cdOut' = cdOut \cup {"getcwd() error"}
  /\ cdExit' = 0
  /\ cdPc' = "done"
  /\ UNCHANGED <<cdArgs, cdDirs, cdStart, cdCwd, cdResult>>

CNext ==
  \/ CdBadArgs
  \/ CdChdirOk
  \/ CdChdirFail
  \/ CdCwdPrinted
  \/ CdCwdError

\* ------------------------------------------------- get_input, step by step

Slots == 8

Spaces(m) == [j \in 1 .. m |-> Sep]

\* k tokens "a", each followed by g separators
RECURSIVE TokenLine(_, _)
TokenLine(k, g) == IF k = 0 THEN <<>> ELSE <<"a">> \o Spaces(g) \o TokenLine(k - 1, g)

\* lines given to get_input: up to MaxTokens tokens, with one or two
\* separators between them and none or one in front
GLines == { Spaces(l) \o TokenLine(k, g) : l \in 0 .. 1, k \in 0 .. MaxTokens, g \in 1 .. 2 }

\* one strtok call on s continuing at position k: <<token, next position>>,
\* the token being NoToken when strtok returns NULL
StrtokCall(s, k) ==
  LET b == Scan(s, k, FALSE)
      e == Scan(s, b, TRUE)
  IN IF b > Len(s) THEN <<NoToken, b>> ELSE <<SubSeq(s, b, e - 1), e + 1>>

GIdle ==
  /\ ginput = <<>>
  /\ gpos = 1
  /\ gparsed = NoToken
  /\ gindex = 0
  /\ gcommand = <<>>
  /\ gstored = {}
  /\ gpc = "none"

GInit ==
  /\ ginput \in GLines
  /\ gpos = 1
  /\ gparsed = NoToken
  /\ gindex = 0
  /\ gcommand = <<>>
  /\ gstored = {}
  /\ gpc = "start"

\* get_input: command = malloc(8 * sizeof(char *)); index = 0;
\* parsed = strtok(input, separator)
GFirst ==
  /\ gpc = "start"
  /\ gparsed' = StrtokCall(ginput, 1)[1]
  /\ gpos' = StrtokCall(ginput, 1)[2]
  /\ gpc' = "loop"
  /\ UNCHANGED <<ginput, gindex, gcommand, gstored>>

\* get_input: loop body: command[index] = parsed; index++;
\* parsed = strtok(NULL, separator)
GStore ==
  /\ gpc = "loop"
  /\ gparsed # NoToken
  /\ gcommand' = Append(gcommand, gparsed)
  /\ gstored' = gstored \cup {gindex}
  /\ gindex' = gindex + 1
  /\ gparsed' = StrtokCall(ginput, gpos)[1]
  /\ gpos' = StrtokCall(ginput, gpos)[2]
  /\ UNCHANGED <<ginput, gpc>>

\* get_input: loop exit: command[index] = NULL; return command
GTerminate ==
  /\ gpc = "loop"
  /\ gparsed = NoToken
  /\ gstored' = gstored \cup {gindex}
  /\ gpc' = "done"
  /\ UNCHANGED <<ginput, gpos, gparsed, gindex, gcommand>>

\* a store outside the allocated block is undefined behaviour: the process
\* goes on with corrupted memory (the actions above), or it is aborted
GAbort ==
  /\ gpc \in {"loop", "done"}
  /\ \E k \in gstored : k >= Slots
  /\ gpc' = "aborted"
  /\ UNCHANGED <<ginput, gpos, gparsed, gindex, gcommand, gstored>>

GNext ==
  \/ GFirst
  \/ GStore
  \/ GTerminate
  \/ GAbort

\* ------------------------------------------------------- specifications

Init == PInit /\ SIdle /\ CIdle /\ GIdle

Next == PNext /\ UNCHANGED <<svars, cvars, gvars>>

\* the pipeline program
Spec == Init /\ [][Next]_vars

ShellInit == SInit /\ PIdle /\ CIdle /\ GIdle

ShellNext == (\E p \in Pids : SStep(p)) /\ UNCHANGED <<pvars, cvars, gvars>>

\* the interactive shell
ShellSpec == ShellInit /\ [][ShellNext]_vars

CdInit == CInit /\ PIdle /\ SIdle /\ GIdle

CdNext == CNext /\ UNCHANGED <<pvars, svars, gvars>>

\* the standalone directory-change utility
CdSpec == CdInit /\ [][CdNext]_vars

GetInputInit == GInit /\ PIdle /\ SIdle /\ CIdle

GetInputNext == GNext /\ UNCHANGED <<pvars, svars, cvars>>

\* get_input called on one line
GetInputSpec == GetInputInit /\ [][GetInputNext]_vars

TypeOK ==
  /\ n \in 1 .. MaxN
  /\ \A p \in ProcIds :
       /\ pc[p] \in {"none", "loop", "spawn", "close_w", "child_in", "child_out",
                     "child_exec", "exec_last", "running", "exited", "reaped"}
       /\ i[p] \in 0 .. MaxN
       /\ stage[p] \in -1 .. (MaxN - 1)

\* ---------------------------------------------------- pipeline properties

\* the process forked by the orchestrator for stage k
StageProc(k) == IF k = n - 1 THEN Root ELSE <<k>>

IsPipeEnd(d) == d[1] \in {"r", "w"}

\* descriptors of p other than standard input and standard output that are pipe ends
ExtraPipeFds(p) == { f \in FdSet \ {0, 1} : IsPipeEnd(fds[p][f]) }

\* C1: a child of spawn_proc in which execvp failed terminates at once with a
\* non-zero status and runs no later step of the loop of fork_pipes (no
\* close, no pipe, no fork, no further exec).
C1_FailedChildTerminates ==
  \A p \in ProcIds :
     execFailed[p] =>
        /\ pc[p] = "exited"
        /\ exitStatus[p] # 0
        /\ nPipes[p] = 0
        /\ nForked[p] = 0
        /\ Cardinality(execTried[p]) = 1

\* C2: when the pipeline is reported complete (the orchestrating process has
\* terminated), every child the orchestrator created has been waited for.
C2_AllChildrenWaited ==
  pc[Root] = "exited" =>
     \A c \in ProcIds : (Len(c) = 1 /\ pc[c] # "none") => pc[c] = "reaped"

\* C3: when the orchestrator runs the terminal stage of a pipeline of two or
\* more stages it holds no pipe end except on its standard input and output.
C3_NoLeakedPipeEnds ==
  (n >= 2 /\ pc[Root] = "running") => ExtraPipeFds(Root) = {}

\* C4: with no failed fork or exec, once the orchestrator has closed the write
\* end of pipe k (it does so before it allocates pipe k+1), the only process
\* holding a write end of pipe k is the stage-k process, and once that process
\* has bound its output it holds it as descriptor 1 only.
C4_WriteEndOnlyInProducer ==
  failures = 0 =>
     \A k \in Iter :
        (i[Root] > k \/ nPipes[Root] > k + 1) =>
           \A p \in ProcIds, f \in FdSet :
              fds[p][f] = WriteEnd(Root, k) =>
                 /\ p = <<k>>
                 /\ pc[p] \in {"child_exec", "running"} => f = 1

C4_Witness ==
  /\ failures = 0
  /\ n = 3
  /\ i[Root] = 2
  /\ pc[<<0>>] = "running"
  /\ fds[<<0>>][1] = WriteEnd(Root, 0)
  /\ pc[<<1>>] = "running"
  /\ fds[<<1>>][1] = WriteEnd(Root, 1)

\* C5: with no failed fork or exec, a process running stage s has as standard
\* input the read end of pipe s-1 (the original standard input for s = 0) and
\* as standard output the write end of pipe s (the original standard output
\* for s = n-1).
C5_StageWiring ==
  failures = 0 =>
     \A p \in ProcIds :
        pc[p] = "running" =>
           /\ p = StageProc(stage[p])
           /\ fds[p][0] = IF stage[p] = 0 THEN Std(0) ELSE ReadEnd(Root, stage[p] - 1)
           /\ fds[p][1] = IF stage[p] = n - 1 THEN Std(1) ELSE WriteEnd(Root, stage[p])

C5_Witness ==
  /\ failures = 0
  /\ n = 3
  /\ \A k \in 0 .. 2 : pc[StageProc(k)] = "running" /\ stage[StageProc(k)] = k
  /\ fds[<<1>>][0] = ReadEnd(Root, 0)
  /\ fds[<<1>>][1] = WriteEnd(Root, 1)

\* every step of process p
Step(p) ==
  \/ Pipe(p) \/ ForkOk(p) \/ ForkFail(p)
  \/ ChildDupIn(p) \/ ChildDupOut(p) \/ ChildExecOk(p) \/ ChildExecFail(p)
  \/ CloseW(p) \/ FinalDup(p) \/ LastExecOk(p) \/ LastExecFail(p)
  \/ StageExit(p)

\* the operating system keeps scheduling: as long as some process can take a
\* step, some process eventually takes one
FairSpec == Init /\ [][Next]_vars /\ WF_vars(Next)

AllStagesExited == \A k \in 0 .. (n - 1) : pc[StageProc(k)] = "exited"

\* control point of the stage-k process, "none" if the pipeline has no stage k
StagePc(k) == IF k \in 0 .. (n - 1) THEN pc[StageProc(k)] ELSE "none"

\* C6: if no fork or exec fails, every stage eventually terminates; a stage
\* other than stage 0 terminates only by reading end-of-stream (StageExit), so
\* no reader waits forever on a write end that somebody still holds.
C6_EndOfStreamPropagates == <>(failures > 0 \/ AllStagesExited)

C6_Witness ==
  /\ failures = 0
  /\ n = 3
  /\ AllStagesExited
  /\ \A k \in 0 .. 2 : exitStatus[StageProc(k)] = 0

\* C7: a spawned child that has been replaced by its stage program holds no
\* pipe end except on its standard input and standard output.
C7_ChildHoldsNoExtraPipeEnd ==
  \A p \in ProcIds \ {Root} : pc[p] = "running" => ExtraPipeFds(p) = {}

\* C8: once a fork() of a process has failed, that process allocates no
\* further pipe, spawns no further stage and execs no stage.
C8_ForkFailurePropagates ==
  [][ \A p \in ProcIds :
         forkFailed[p] =>
            /\ nPipes'[p] = nPipes[p]
            /\ nForked'[p] = nForked[p]
            /\ execTried'[p] = execTried[p] ]_vars

\* C9: the orchestrator never allocates more than n-1 pipes or creates more
\* than n-1 children; when none of its forks failed and it has reached the
\* terminal exec it has allocated exactly n-1 pipes, created exactly n-1
\* children and called execvp for stage n-1 only, in its own process; for
\* n = 1 it made no dup2 call and its descriptor table is the original one.
C9_PipeAndChildCount ==
  /\ nPipes[Root] <= n - 1
  /\ nForked[Root] <= n - 1
  /\ (pc[Root] \in {"exec_last", "running", "exited"} /\ ~forkFailed[Root]) =>
        /\ nPipes[Root] = n - 1
        /\ nForked[Root] = n - 1
        /\ { c \in ProcIds : Len(c) = 1 /\ pc[c] # "none" } = { <<k>> : k \in 0 .. (n - 2) }
        /\ execTried[Root] \subseteq {n - 1}
        /\ pc[Root] = "running" => stage[Root] = n - 1
        /\ (n = 1 /\ pc[Root] # "exited") => (nDups[Root] = 0 /\ fds[Root] = InitFds)

C9_Witness ==
  /\ n = 3
  /\ pc[Root] = "running"
  /\ stage[Root] = 2
  /\ nPipes[Root] = 2
  /\ nForked[Root] = 2
  /\ ~forkFailed[Root]

C9_WitnessSingle ==
  /\ n = 1
  /\ pc[Root] = "running"
  /\ nPipes[Root] = 0

\* ------------------------------------------------------- shell properties

\* C10: a child of the shell in which execvp failed has printed a diagnostic
\* naming the program and terminated with status 1 without reading a line or
\* forking; its parent, as long as it has not reached end of input, is still
\* in the shell loop: waiting for that child, or reading or dispatching the
\* next line.
C10_ExecFailureIsLocal ==
  \A c \in Pids :
     sexecFailed[c] =>
        /\ spc[c] \in {"exited", "reaped"}
        /\ sstatus[c] = 1
        /\ <<c, "exec", Arg(scmd[c], 0)>> \in sdiag
        /\ schild[c] = 0
        /\ c \notin seof
        /\ LET p == sparent[c]
           IN /\ p \in Pids
              /\ (schild[p] = c /\ p \notin seof) => spc[p] \in {"wait", "read", "fork"}
              /\ (schild[p] = c /\ spc[p] = "wait") => spc[c] = "exited"

C10_Witness ==
  \E c \in Pids :
     /\ sexecFailed[c]
     /\ sparent[c] = Shell
     /\ spc[c] = "reaped"
     /\ schild[Shell] = c
     /\ spc[Shell] = "fork"
     /\ lines = <<>>

\* C11: the working directory of the original shell process is always the
\* one it started in; a cd changes the working directory of the child that
\* runs it only.
C11_ShellCwdUnchanged == scwd[Shell] = StartDir

C11_Witness ==
  \E c \in Pids :
     /\ sparent[c] = Shell
     /\ scwd[c] = <<"d">>
     /\ spc[c] = "read"
     /\ scwd[Shell] = StartDir
     /\ lines = <<>>

\* C12: a process in which the chdir of a cd command failed (missing,
\* nonexistent or forbidden path) has printed a diagnostic and finished with
\* a non-zero exit status.
C12_CdFailureExitsNonZero ==
  \A p \in Pids :
     <<p, "chdir", NoToken>> \in sdiag =>
        /\ spc[p] \in {"exited", "reaped"}
        /\ sstatus[p] # 0

\* C13: a process of the shell loop never reads or dispatches a line while
\* the child it created for the previous line is still alive.
C13_StrictlySequential ==
  \A p \in Pids :
     (spc[p] \in {"read", "fork"} /\ schild[p] \in Pids) => ~SAlive(schild[p])

\* C14: no process is created, or about to be created, for a line that is
\* empty or consists of whitespace characters only (every character of every
\* token of the command is a whitespace character).
C14_BlankLineNoProcess ==
  \A p \in Pids :
     spc[p] \in {"fork", "child"} =>
        \E k \in 1 .. Len(scmd[p]) : \E j \in 1 .. Len(scmd[p][k]) : scmd[p][k][j] \notin {" ", "\t"}

\* C15: a process whose readline has returned NULL has left the loop and
\* terminated normally: it has not tokenized the missing line or iterated
\* again.
C15_EndOfInputTerminates ==
  \A p \in seof : spc[p] \in {"exited", "reaped"} /\ sstatus[p] = 0

\* C16 as stated: after a failed fork() the diagnostic is printed and the
\* shell loop of that process goes on with the next line.
C16_ForkFailureLoopContinues ==
  \A p \in Pids : <<p, "fork", NoToken>> \in sdiag => spc[p] \in {"read", "fork", "wait"}

\* C16 amended: a process whose fork() failed has printed the diagnostic and
\* exited with status 1 without creating a child for that command; its loop
\* does not continue.
C16_ForkFailureExitsShell ==
  \A p \in Pids :
     /\ schild[p] = -1 <=> <<p, "fork", NoToken>> \in sdiag
     /\ schild[p] = -1 =>
           /\ spc[p] \in {"exited", "reaped"}
           /\ sstatus[p] = 1

C16_Witness ==
  /\ <<Shell, "fork", NoToken>> \in sdiag
  /\ spc[Shell] = "exited"
  /\ sstatus[Shell] = 1
  /\ Len(lines) = 1

\* C18: no forked child ever runs the shell loop (reads a line, forks or
\* waits): the original shell is the only process that does.
C18_OnlyShellRunsLoop ==
  \A p \in Pids \ {Shell} : spc[p] \notin {"read", "fork", "wait"}

\* C19: over all processes of a run, execvp is called at most once for each
\* stage, and each pipe is the standard output of at most one running stage
\* program.
C19_SingleExecAndWriter ==
  /\ \A k \in 0 .. (n - 1) : Cardinality({ p \in ProcIds : k \in execTried[p] }) <= 1
  /\ \A q \in ProcIds, k \in Iter :
        Cardinality({ p \in ProcIds : pc[p] = "running" /\ fds[p][1] = WriteEnd(q, k) }) <= 1

\* ------------------------------------------------- cd utility properties

\* C17: when the utility has finished: with a wrong argument count the exit
\* code is 1 and the working directory is the initial one; with a successful
\* chdir the exit code is 0; with a failed chdir the exit code is not 0.
C17_CdUtilityExitCode ==
  cdPc = "done" =>
     /\ argc # 2 => (cdExit = 1 /\ cdCwd = cdStart)
     /\ (argc = 2 /\ cdResult = 0) => cdExit = 0
     /\ (argc = 2 /\ cdResult # 0) => cdExit # 0

\* -------------------------------------------------- get_input properties

\* C20: every index of command[...] that get_input stores to, the index of
\* the terminating NULL included, is between 0 and 7.
C20_StoresWithinAllocation == \A k \in gstored : k \in 0 .. (Slots - 1)
====
